---- MODULE Spec2Model ----
(***************************************************************************)
(* cryoem-monitor: the health-monitor client (client/logger.py, driven by  *)
(* cli/main.py) collects the samples of the trailing window from an        *)
(* exported XML document and pushes them to the server                     *)
(* (server/prometheus.py), which builds its metric tables at import time   *)
(* and routes every pushed value to an Enum, a Gauge or a Counter.         *)
(*                                                                         *)
(* Strings of the program are strings here.  Python's None is the string   *)
(* "None".  A dict is a function; a dict whose insertion order matters     *)
(* (collect's result) is a sequence of <<key, value>> pairs.  Floating     *)
(* point numbers are integers in tenths (23.1 is 231).  Times are whole    *)
(* seconds.                                                                *)
(***************************************************************************)
EXTENDS Integers, Sequences, FiniteSets, TLC

None == "None"

(***************************************************************************)
(* Values.  A value on the wire (HealthMonitorData.value) is a JSON        *)
(* string, float or int; the client always sends strings (str(v)).         *)
(***************************************************************************)
WireStr(x)   == [ty |-> "str",   x |-> x]
WireFloat(x) == [ty |-> "float", x |-> x]
WireInt(x)   == [ty |-> "int",   x |-> x]

\* The decimal texts the model uses, with their value in tenths.
Tenths == [x \in {"0", "1", "2", "22.5", "23.1"} |->
            CASE x = "0" -> 0 [] x = "1" -> 10 [] x = "2" -> 20
              [] x = "22.5" -> 225 [] x = "23.1" -> 231]

IntegerTexts == {"0", "1", "2"}

Raised(exc) == [exc |-> exc, val |-> 0]
Returned(v) == [exc |-> None, val |-> v]

\* Python's int(value): a str must be an integer literal, a float is
\* truncated, an int is itself.
int(value) ==
    CASE value.ty = "int"   -> Returned(Tenths[value.x] \div 10)
      [] value.ty = "float" -> Returned(Tenths[value.x] \div 10)
      [] value.ty = "str"   -> IF value.x \in IntegerTexts
                               THEN Returned(Tenths[value.x] \div 10)
                               ELSE Raised("ValueError")

\* Python's float(value), in tenths: a str must be a decimal literal.
float(value) ==
    IF value.ty = "str" /\ value.x \notin DOMAIN Tenths
    THEN Raised("ValueError")
    ELSE Returned(Tenths[value.x])

\* str(v) of push_data's payload, for a value parsed from the document.
str(v) == WireStr(v.x)

(***************************************************************************)
(* Timestamps.  A timestamp text is modelled by its form, the wall-clock   *)
(* second it shows and the UTC offset it carries (seconds, 0 when none):   *)
(*   "frac"   2024-08-13T14:53:21.123Z        (at most 6 fraction digits)  *)
(*   "frac7"  2024-08-13T14:53:21.1234567Z    (7 fraction digits)          *)
(*   "sec"    2024-08-13T14:53:21Z            (no fraction)                *)
(*   "offset" 2024-08-13T14:53:21.123+01:00   (numeric UTC offset)         *)
(*   "bad"    a text none of the formats fits                              *)
(***************************************************************************)
Stamp(form, t, off) == [form |-> form, t |-> t, off |-> off]

\* strptime against known_time_formats, first fit wins: %f takes at most six
\* digits, so "frac7" fits none; "frac" and "sec" give a naive datetime,
\* "offset" an aware one.
parse_datetime(datetime_str) ==
    IF datetime_str.form \in {"frac", "sec", "offset"}
    THEN Returned([wall |-> datetime_str.t, utcoffset |-> datetime_str.off])
    ELSE Raised("ValueError")

\* time[:26] + "Z": 26 characters reach the sixth fraction digit, so a "frac"
\* text ends in Z or ZZ and a "frac7" text loses its seventh digit; a "sec"
\* text becomes ...21ZZ and an "offset" text ...21.123+01Z, which fit no format.
Slice26Z(time) ==
    IF time.form \in {"frac", "frac7"}
    THEN Stamp("frac", time.t, 0)
    ELSE Stamp("bad", time.t, 0)

\* timedelta(minutes=1), in seconds
WindowSeconds == 60

\* value_time >= time_obj, both after replace(tzinfo=timezone.utc), which
\* keeps the wall-clock reading and drops the offset.
InWindowStrict(value_time, time_obj) == value_time.wall > time_obj.wall
InWindow(value_time, time_obj) == value_time.wall >= time_obj.wall

\* time_obj - timedelta(minutes=1)
WindowStart(time_obj) == [time_obj EXCEPT !.wall = @ - WindowSeconds]

(***************************************************************************)
(* Python dicts that keep insertion order: sequences of <<key, value>>.    *)
(***************************************************************************)
Keys(d) == {d[i][1] : i \in 1..Len(d)}
KeySeq(d) == [i \in 1..Len(d) |-> d[i][1]]
Get(d, k) == d[CHOOSE i \in 1..Len(d) : d[i][1] = k][2]

\* d[k] = v: a key already present keeps its place and gets the new value.
SetItem(d, k, v) ==
    IF k \in Keys(d)
    THEN [i \in 1..Len(d) |-> IF d[i][1] = k THEN <<k, v>> ELSE d[i]]
    ELSE Append(d, <<k, v>>)

(***************************************************************************)
(* The document (HealthMonitor).  A document that fails validation has     *)
(* valid = FALSE.                                                          *)
(*   enumerations : sequence of [name, literals: sequence of [value, name]]*)
(*   component    : sequence of [name, components (a sequence of           *)
(*                  components, <<>> for None), parameter: sequence of     *)
(*                  [parameterid, name, enumerationname]]                  *)
(*   values       : [end, instrument, value_data: sequence of              *)
(*                  [valueid, parameter_value: sequence of blocks, each a  *)
(*                  sequence of [timestamp, value]]]                       *)
(***************************************************************************)
EMLiteral(value, name) == [value |-> value, name |-> name]
EMEnumeration(name, literals) == [name |-> name, literals |-> literals]
Parameter(id, name, enumerationname) ==
    [parameterid |-> id, name |-> name, enumerationname |-> enumerationname]
Component(name, components, parameter) ==
    [name |-> name, components |-> components, parameter |-> parameter]
ParameterValue(timestamp, value) == [timestamp |-> timestamp, value |-> value]
ValueData(valueid, parameter_value) ==
    [valueid |-> valueid, parameter_value |-> parameter_value]
Values(end, instrument, value_data) ==
    [end |-> end, instrument |-> instrument, value_data |-> value_data]
HealthMonitor(valid, enumerations, component, values) ==
    [valid |-> valid, enumerations |-> enumerations, component |-> component,
     values |-> values]

\* parse_xml: a ValidationError is printed and the function goes on to
\* `return EMData` with EMData unbound.
parse_xml(xml) ==
    IF xml.valid THEN Returned(xml) ELSE Raised("UnboundLocalError")

RECURSIVE Flatten(_)
\* for value in values: for parameter in value.parameter_value
Flatten(blocks) ==
    IF blocks = <<>> THEN <<>> ELSE Head(blocks) \o Flatten(Tail(blocks))

(***************************************************************************)
(* parse_enums and component_enums                                         *)
(***************************************************************************)
\* name.replace("_enum", "") on the enumeration names of the model
replace_enum(name) ==
    CASE name = "ObjectiveMode_enum" -> "ObjectiveMode"
      [] name = "VacuumState_enum"   -> "VacuumState"
      [] OTHER                       -> name

RECURSIVE LiteralDict(_, _)
\* {lit.value: lit.name for lit in enum.literals}: a later literal with the
\* same code replaces the earlier one
LiteralDict(literals, acc) ==
    IF literals = <<>> THEN acc
    ELSE LET lit == Head(literals) IN
         LiteralDict(Tail(literals), SetItem(acc, lit.value, lit.name))

RECURSIVE EnumDict(_, _)
\* data[name] = values, for enum in EMData.enumerations.enumerations
EnumDict(enumerations, data) ==
    IF enumerations = <<>> THEN data
    ELSE LET enum == Head(enumerations) IN
         EnumDict(Tail(enumerations),
                  SetItem(data, replace_enum(enum.name),
                          LiteralDict(enum.literals, <<>>)))

\* parse_enums(xml_path): enumeration name -> (code -> label)
parse_enums(xml) ==
    LET EMData == parse_xml(xml) IN
    IF EMData.exc # None THEN Raised(EMData.exc)
    ELSE Returned(EnumDict(EMData.val.enumerations, <<>>))

\* A name is the sequence of its pieces: runs of ordinary characters, and the
\* characters " ", "." and "-" one by one.
RECURSIVE replace(_, _, _)
\* name.replace(old, new), old one of the single characters, new a name
replace(name, old, new) ==
    IF name = <<>> THEN <<>>
    ELSE (IF Head(name) = old THEN new ELSE <<Head(name)>>)
         \o replace(Tail(name), old, new)

\* name = f"{component.name}_{parameter.name}"
\* name = name.replace(" ", "_").replace(".", "").replace("-", "")
MetricName(component, parameter) ==
    LET name == component.name \o <<"_">> \o parameter.name
    IN  replace(replace(replace(name, " ", <<"_">>), ".", <<>>), "-", <<>>)

\* ParameterNames(name=name, enumeration=...)
ParameterNames(component, parameter) ==
    [name |-> MetricName(component, parameter),
     enumeration |-> IF parameter.enumerationname # None
                     THEN replace_enum(parameter.enumerationname)
                     ELSE None]

RECURSIVE ResolveParameters(_, _, _)
\* for parameter in component.parameter: ResponseData[id] = ParameterNames(..)
ResolveParameters(component, parameters, ResponseData) ==
    IF parameters = <<>> THEN ResponseData
    ELSE LET parameter == Head(parameters) IN
         ResolveParameters(component, Tail(parameters),
             SetItem(ResponseData, parameter.parameterid,
                     ParameterNames(component, parameter)))

RECURSIVE ResolveInner(_, _)
\* for innercomponent in outercomponent.components
ResolveInner(components, ResponseData) ==
    IF components = <<>> THEN ResponseData
    ELSE ResolveInner(Tail(components),
             ResolveParameters(Head(components), Head(components).parameter,
                               ResponseData))

RECURSIVE ResolveOuterOwnToo(_, _)
ResolveOuterOwnToo(components, ResponseData) ==
    IF components = <<>> THEN ResponseData
    ELSE LET outercomponent == Head(components) IN
         ResolveOuterOwnToo(Tail(components),
             ResolveInner(outercomponent.components,
                 ResolveParameters(outercomponent, outercomponent.parameter,
                                   ResponseData)))

RECURSIVE ResolveOuter(_, _)
\* for outercomponent in EMData.instruments.instrument.component: a component
\* without children gives its own parameters, one with children only those of
\* its direct children
ResolveOuter(components, ResponseData) ==
    IF components = <<>> THEN ResponseData
    ELSE LET outercomponent == Head(components) IN
         ResolveOuter(Tail(components),
             IF outercomponent.components = <<>>
             THEN ResolveParameters(outercomponent, outercomponent.parameter,
                                    ResponseData)
             ELSE ResolveInner(outercomponent.components, ResponseData))

\* component_enums(xml_path): parameter id -> ParameterNames, in resolution order
component_enums(xml) ==
    LET EMData == parse_xml(xml) IN
    IF EMData.exc # None THEN Raised(EMData.exc)
    ELSE Returned(ResolveOuter(EMData.val.component, <<>>))

(***************************************************************************)
(* The documents of the model                                              *)
(***************************************************************************)
ObjectiveMode_enum ==
    EMEnumeration("ObjectiveMode_enum", <<EMLiteral(0, "Off"), EMLiteral(1, "On")>>)
VacuumState_enum ==
    EMEnumeration("VacuumState_enum", <<EMLiteral(0, "Vented")>>)

\* P1 is numeric, P2 enumerated
FEG == Component(<<"FEG">>, <<>>,
         <<Parameter("P1", <<"Temperature">>, None),
           Parameter("P2", <<"Objective", " ", "Mode">>, "ObjectiveMode_enum")>>)
\* a component with a child and a parameter of its own (P3)
Autoloader == Component(<<"Autoloader">>,
         <<Component(<<"Cassette">>, <<>>, <<Parameter("P4", <<"Slots">>, None)>>)>>,
         <<Parameter("P3", <<"Pressure">>, None)>>)
\* a parameter whose ID is the name of a manually declared counter
Loader == Component(<<"Loader">>, <<>>, <<Parameter("num_loads", <<"Loads">>, None)>>)

NoValues == Values(Stamp("frac", 0, 0), "Krios4", <<>>)

XmlStandard    == HealthMonitor(TRUE, <<ObjectiveMode_enum>>, <<FEG, Autoloader>>, NoValues)
XmlMissingEnum == HealthMonitor(TRUE, <<VacuumState_enum>>, <<FEG>>, NoValues)
XmlCounterId   == HealthMonitor(TRUE, <<ObjectiveMode_enum>>, <<Loader>>, NoValues)
XmlInvalid     == HealthMonitor(FALSE, <<>>, <<>>, NoValues)

\* the files health_monitor_xml may name
ServerDocs == {XmlStandard, XmlMissingEnum, XmlCounterId, XmlInvalid}

(***************************************************************************)
(* State                                                                   *)
(***************************************************************************)
VARIABLES
    \* server process (server/prometheus.py)
    serverPc,        \* the module-level statement the import is about to run
    xml_path,        \* the document health_monitor_xml names
    Enum_List,       \* enumeration name -> (code -> label)
    ComponentList,   \* parameter id -> ParameterNames
    buildIdx,        \* position of the loop that fills Enumerations
    Enumerations,    \* parameter id -> [states, children: instrument -> state]
    Gauges,          \* parameter id -> (instrument -> value in tenths)
    increment_map,   \* counter name -> [labelnames, children: instrument -> count]
    request,         \* the payload of the latest POST /set
    response,        \* what its sender got back
    \* client process (cli/main.py run, client/logger.py push_data)
    clientPc,
    document,        \* the document the export command wrote
    time_obj,        \* collect: the start of the window
    vdIdx,           \* collect: position in value_data
    smIdx,           \* collect: position in the samples of that ValueData, 0 before them
    data,            \* collect's setup, then push_data's data.items()
    instrument_name,
    pushIdx          \* position of push_data's loop

serverVars == <<serverPc, xml_path, Enum_List, ComponentList, buildIdx,
                Enumerations, Gauges, increment_map>>
httpVars   == <<request, response>>
collectVars == <<time_obj, vdIdx, smIdx>>
clientVars == <<clientPc, document, collectVars, data, instrument_name, pushIdx>>
vars == <<serverVars, httpVars, clientVars>>

HealthMonitorData(type, instrument, value) ==
    [type |-> type, instrument |-> instrument, value |-> value]

NoRequest == HealthMonitorData(None, None, <<>>)
Response(status, body) == [status |-> status, body |-> body]
NoResponse == Response("none", None)
\* requests.post against a port nobody listens on
ConnectionError == Response("ConnectionError", None)
\* an exception set_value does not catch
InternalServerError == Response("500", "Internal Server Error")
\* set_value falls off its end
Ok == Response("200", "null")
\* return {"error": str(e)}
Error(e) == Response("200", e)

(***************************************************************************)
(* Server: the module-level build, one statement (or loop pass) per step.  *)
(* An exception at import time ends the process: uvicorn never serves.     *)
(***************************************************************************)
\* Enum_List = parse_enums(xml_path)
ImportEnumList ==
    /\ serverPc = "Enum_List"
    /\ LET r == parse_enums(xml_path) IN
       IF r.exc # None
       THEN serverPc' = "failed" /\ UNCHANGED Enum_List
       ELSE serverPc' = "ComponentList" /\ Enum_List' = r.val
    /\ UNCHANGED <<xml_path, ComponentList, buildIdx, Enumerations, Gauges,
                   increment_map, httpVars, clientVars>>

\* ComponentList = component_enums(xml_path)
ImportComponentList ==
    /\ serverPc = "ComponentList"
    /\ LET r == component_enums(xml_path) IN
       IF r.exc # None
       THEN serverPc' = "failed" /\ UNCHANGED ComponentList
       ELSE serverPc' = "Enumerations" /\ ComponentList' = r.val
    /\ buildIdx' = 1
    /\ UNCHANGED <<xml_path, Enum_List, Enumerations, Gauges, increment_map,
                   httpVars, clientVars>>

\* list(Enum_List[enum_val].values())
StatesOf(literals) == [i \in 1..Len(literals) |-> literals[i][2]]

\* one pass of `for componentid in ComponentList:` filling Enumerations;
\* Enum_List[enum_val] raises KeyError for an enumeration the document lacks
BuildEnumerations ==
    /\ serverPc = "Enumerations"
    /\ IF buildIdx > Len(ComponentList)
       THEN serverPc' = "Gauges" /\ UNCHANGED <<buildIdx, Enumerations>>
       ELSE LET componentid == ComponentList[buildIdx][1]
                enum_val == ComponentList[buildIdx][2].enumeration
            IN  IF enum_val = None
                THEN /\ buildIdx' = buildIdx + 1
                     /\ UNCHANGED <<serverPc, Enumerations>>
                ELSE IF enum_val \notin Keys(Enum_List)
                THEN serverPc' = "failed" /\ UNCHANGED <<buildIdx, Enumerations>>
                ELSE /\ Enumerations' = Enumerations @@
                          (componentid :> [states |-> StatesOf(Get(Enum_List, enum_val)),
                                           children |-> <<>>])
                     /\ buildIdx' = buildIdx + 1
                     /\ UNCHANGED serverPc
    /\ UNCHANGED <<xml_path, Enum_List, ComponentList, Gauges, increment_map,
                   httpVars, clientVars>>

\* the ids of the Gauges comprehension
GaugeIds == {componentid \in Keys(ComponentList) :
                Get(ComponentList, componentid).enumeration = None}

\* Gauges = {componentid: Gauge(...) for ... if enumeration is None}
BuildGauges ==
    /\ serverPc = "Gauges"
    /\ Gauges' = [componentid \in GaugeIds |-> <<>>]
    /\ serverPc' = "increment_map"
    /\ UNCHANGED <<xml_path, Enum_List, ComponentList, buildIdx, Enumerations,
                   increment_map, httpVars, clientVars>>

\* Counter("AUTO_LOADER_COUNTER", "Number of loads of the autoloader"): no
\* labelnames are given
Counter(labelnames) == [labelnames |-> labelnames, children |-> <<>>]

\* num_loads, autofill_times and increment_map
BuildCounters ==
    /\ serverPc = "increment_map"
    /\ increment_map' = ("num_loads" :> Counter(<<>>)) @@
                        ("autofill_times" :> Counter(<<>>))
    /\ serverPc' = "include_router"
    /\ UNCHANGED <<xml_path, Enum_List, ComponentList, buildIdx, Enumerations,
                   Gauges, httpVars, clientVars>>

\* app.include_router(prom_router) ends the import; uvicorn then listens
IncludeRouter ==
    /\ serverPc = "include_router"
    /\ serverPc' = "serving"
    /\ UNCHANGED <<xml_path, Enum_List, ComponentList, buildIdx, Enumerations,
                   Gauges, increment_map, httpVars, clientVars>>

\* POST /set reaches set_value only once the import has run to its end
ListeningEarly == serverPc \notin {"Enum_List", "ComponentList", "failed"}
Listening == serverPc = "serving"

(***************************************************************************)
(* set_value.  In `metric.labels(i).state(arg)` Python evaluates the       *)
(* callee, and so labels(i), before the argument: the labelled child       *)
(* exists (an Enum in its first state, a Gauge at 0) even when the         *)
(* argument raises.                                                        *)
(***************************************************************************)
Outcome(exc, sink) == [exc |-> exc, sink |-> sink]
Exception(type, msg) == [type |-> type, msg |-> msg]
NoException == Exception(None, None)

\* Enum.labels(instrument=...): the child, created in state states[0]
EnumLabels(sink, instrument) ==
    IF instrument \in DOMAIN sink.children THEN sink
    ELSE [sink EXCEPT !.children = @ @@ (instrument :> sink.states[1])]

\* Gauge.labels(instrument): the child, created at 0.0
GaugeLabels(sink, instrument) ==
    IF instrument \in DOMAIN sink THEN sink ELSE sink @@ (instrument :> 0)

\* Enum_List[enum_val][code]
LabelFirst(enum_val, code) == Get(Enum_List, enum_val)[1][2]
Label(enum_val, code) == Get(Get(Enum_List, enum_val), code)

RECURSIVE EnumBranch(_, _, _, _)
\* for value in values: Enumerations[header_type].labels(...).state(
\*     Enum_List[enum_val][int(value)])
EnumBranch(values, header_type, instrument, sink) ==
    IF values = <<>> THEN Outcome(NoException, sink)
    ELSE LET value == Head(values)
             enum_val == Get(ComponentList, header_type).enumeration
             child == EnumLabels(sink, instrument)
             code == int(value)
         IN  IF enum_val = None
             THEN Outcome(Exception("ValueError", "Enumeration is missing or empty."), sink)
             ELSE IF code.exc # None
                  THEN Outcome(Exception(code.exc, "invalid literal for int()"), child)
             ELSE IF code.val \notin Keys(Get(Enum_List, enum_val))
                  THEN Outcome(Exception("KeyError", "key"), child)
             ELSE EnumBranch(Tail(values), header_type, instrument,
                     [child EXCEPT !.children[instrument] = Label(enum_val, code.val)])

\* values[-1]
LastFirst(values) == values[1]
Last(values) == values[Len(values)]

\* Gauges[header_type].labels(instrument_name).set(float(values[-1]))
GaugeBranch(values, instrument, sink) ==
    LET child == GaugeLabels(sink, instrument) IN
    IF values = <<>>
    THEN Outcome(Exception("IndexError", "list index out of range"), child)
    ELSE LET x == float(Last(values)) IN
         IF x.exc # None
         THEN Outcome(Exception(x.exc, "could not convert string to float"), child)
         ELSE Outcome(NoException, [child EXCEPT ![instrument] = x.val])

\* increment_map[header_type].labels(instrument_name).inc(1): labels() raises
\* ValueError on a metric built without labelnames
CounterBranch(instrument, sink) ==
    IF sink.labelnames = <<>>
    THEN Outcome(Exception("ValueError", "No label names were set"), sink)
    ELSE LET child == IF instrument \in DOMAIN sink.children THEN sink
                      ELSE [sink EXCEPT !.children = @ @@ (instrument :> 0)]
         IN  Outcome(NoException, [child EXCEPT !.children[instrument] = @ + 1])

\* try: ... except ValueError as e: return {"error": str(e)}
Reply(exc) ==
    CASE exc.type = None         -> Ok
      [] exc.type = "ValueError" -> Error(exc.msg)
      [] OTHER                   -> InternalServerError

\* the membership tests of set_value, in their order
Route(header_type) ==
    CASE header_type \in DOMAIN Enumerations  -> "enum"
      [] header_type \in DOMAIN Gauges        -> "gauge"
      [] header_type \in DOMAIN increment_map -> "counter"
      [] OTHER                                -> "invalid"

\* set_value(request): the sinks afterwards and the reply
set_value(payload) ==
    LET header_type == payload.type
        kind == Route(header_type)
    IN  CASE kind = "enum" ->
               LET r == EnumBranch(payload.value, header_type, payload.instrument,
                                   Enumerations[header_type])
               IN  /\ Enumerations' = [Enumerations EXCEPT ![header_type] = r.sink]
                   /\ response' = Reply(r.exc)
                   /\ UNCHANGED <<Gauges, increment_map>>
          [] kind = "gauge" ->
               LET r == GaugeBranch(payload.value, payload.instrument,
                                    Gauges[header_type])
               IN  /\ Gauges' = [Gauges EXCEPT ![header_type] = r.sink]
                   /\ response' = Reply(r.exc)
                   /\ UNCHANGED <<Enumerations, increment_map>>
          [] kind = "counter" ->
               LET r == CounterBranch(payload.instrument, increment_map[header_type])
               IN  /\ increment_map' = [increment_map EXCEPT ![header_type] = r.sink]
                   /\ response' = Reply(r.exc)
                   /\ UNCHANGED <<Enumerations, Gauges>>
          [] OTHER ->
               \* raise ValueError("Invalid type")
               /\ response' = Error("Invalid type")
               /\ UNCHANGED <<Enumerations, Gauges, increment_map>>

\* requests.post(url, json=payload), from any sender: the server takes one
\* request at a time (set_value never awaits)
Post(payload) ==
    /\ request = NoRequest
    /\ request' = payload
    /\ IF Listening
       THEN set_value(payload)
       ELSE /\ response' = ConnectionError
            /\ UNCHANGED <<Enumerations, Gauges, increment_map>>
    /\ UNCHANGED <<serverPc, xml_path, Enum_List, ComponentList, buildIdx>>

(***************************************************************************)
(* Client: run()'s loop around push_data.  run() catches only              *)
(* KeyboardInterrupt; any other exception ends the process.                *)
(***************************************************************************)
\* the documents the export command writes in the pipeline specification
XmlBatch ==
    HealthMonitor(TRUE, <<ObjectiveMode_enum>>, <<FEG, Autoloader>>,
      Values(Stamp("frac", 1000, 0), "Krios4",
        <<ValueData("P3", <<<<ParameterValue(Stamp("frac", 1000, 0), WireFloat("22.5"))>>>>),
          ValueData("P2", <<<<ParameterValue(Stamp("frac", 990, 0), WireInt("0")),
                              ParameterValue(Stamp("frac", 1000, 0), WireInt("1"))>>>>),
          ValueData("P4", <<<<ParameterValue(Stamp("frac", 900, 0), WireInt("2"))>>>>),
          ValueData("P1", <<<<ParameterValue(Stamp("frac", 970, 0), WireFloat("22.5")),
                              ParameterValue(Stamp("frac", 999, 0), WireFloat("23.1"))>>>>)>>))
XmlUndeclaredCode ==
    HealthMonitor(TRUE, <<ObjectiveMode_enum>>, <<FEG, Autoloader>>,
      Values(Stamp("frac7", 2000, 0), "Talos",
        <<ValueData("P2", <<<<ParameterValue(Stamp("sec", 1990, 0), WireInt("1")),
                              ParameterValue(Stamp("frac", 2000, 0), WireInt("2"))>>>>),
          ValueData("P1", <<<<ParameterValue(Stamp("frac", 2000, 0), WireInt("1"))>>>>)>>))
\* the two samples of P1 are written latest first
XmlLatestFirst ==
    HealthMonitor(TRUE, <<ObjectiveMode_enum>>, <<FEG, Autoloader>>,
      Values(Stamp("frac", 3000, 0), "Krios4",
        <<ValueData("P1", <<<<ParameterValue(Stamp("frac", 2999, 0), WireFloat("23.1")),
                              ParameterValue(Stamp("frac", 2970, 0), WireFloat("22.5"))>>>>)>>))

ClientDocs == {XmlBatch, XmlUndeclaredCode, XmlLatestFirst, XmlInvalid}

\* config = requests.get(f"{args.server}/config").json()
GetConfig ==
    /\ clientPc = "config"
    /\ clientPc' = IF Listening THEN "export" ELSE "terminated"
    /\ UNCHANGED <<serverVars, httpVars, document, collectVars, data, instrument_name, pushIdx>>

\* subprocess.run(config["health_data_command"]) and the glob
Export ==
    /\ clientPc = "export"
    /\ document' \in ClientDocs
    /\ clientPc' = "collect"
    /\ UNCHANGED <<serverVars, httpVars, collectVars, data, instrument_name, pushIdx>>

\* collect, up to its loop: parse_xml, the instrument name, and the window
\* start from the document's end time; an exception leaves run()
CollectBegin ==
    /\ clientPc = "collect"
    /\ LET EMData == parse_xml(document)
           end == parse_datetime(Slice26Z(document.values.end))
       IN  IF EMData.exc # None \/ end.exc # None
           THEN /\ clientPc' = "terminated"
                /\ UNCHANGED <<collectVars, data, instrument_name>>
           ELSE /\ clientPc' = "collecting"
                /\ instrument_name' = document.values.instrument
                /\ time_obj' = WindowStart(end.val)
                /\ data' = <<>>
                /\ vdIdx' = 1
                /\ smIdx' = 0
    /\ UNCHANGED <<serverVars, httpVars, document, pushIdx>>

\* the samples of the ValueData collect is at
Samples == Flatten(document.values.value_data[vdIdx].parameter_value)

\* setup[name] = [], whatever the ValueData holds
EnterKeyIfSamples(setup, name, samples) ==
    IF samples = <<>> THEN setup ELSE SetItem(setup, name, <<>>)
EnterKey(setup, name, samples) == SetItem(setup, name, <<>>)

\* for data in value_data: name = data.valueid; setup[name] = []
CollectEnter ==
    /\ clientPc = "collecting"
    /\ vdIdx <= Len(document.values.value_data)
    /\ smIdx = 0
    /\ data' = EnterKey(data, document.values.value_data[vdIdx].valueid, Samples)
    /\ IF Samples = <<>>
       THEN vdIdx' = vdIdx + 1 /\ UNCHANGED smIdx
       ELSE smIdx' = 1 /\ UNCHANGED vdIdx
    /\ UNCHANGED <<serverVars, httpVars, clientPc, document, time_obj,
                   instrument_name, pushIdx>>

\* one sample: value_time = parse_datetime(parameter.timestamp);
\* if value_time >= time_obj: setup[name].append(parameter.value.value)
CollectSample ==
    /\ clientPc = "collecting"
    /\ vdIdx <= Len(document.values.value_data)
    /\ smIdx >= 1
    /\ LET name == document.values.value_data[vdIdx].valueid
           parameter == Samples[smIdx]
           value_time == parse_datetime(parameter.timestamp)
       IN  IF value_time.exc # None
           THEN /\ clientPc' = "terminated"
                /\ UNCHANGED <<data, vdIdx, smIdx>>
           ELSE /\ data' = IF InWindow(value_time.val, time_obj)
                           THEN SetItem(data, name, Append(Get(data, name), parameter.value))
                           ELSE data
                /\ IF smIdx < Len(Samples)
                   THEN smIdx' = smIdx + 1 /\ UNCHANGED vdIdx
                   ELSE smIdx' = 0 /\ vdIdx' = vdIdx + 1
                /\ UNCHANGED clientPc
    /\ UNCHANGED <<serverVars, httpVars, document, time_obj, instrument_name, pushIdx>>

\* return instrument_name, setup; push_data starts its loop
CollectReturn ==
    /\ clientPc = "collecting"
    /\ vdIdx > Len(document.values.value_data)
    /\ clientPc' = "push"
    /\ pushIdx' = 1
    /\ UNCHANGED <<serverVars, httpVars, document, collectVars, data, instrument_name>>

\* "value": [str(v) for v in values]
StrList(values) == [i \in 1..Len(values) |-> str(values[i])]

\* if values:
SendsAlways(values) == TRUE
Sends(values) == values # <<>>

\* one pass of `for parameter, values in data.items():`
Push ==
    /\ clientPc = "push"
    /\ pushIdx <= Len(data)
    /\ LET parameter == data[pushIdx][1]
           values == data[pushIdx][2]
       IN  IF Sends(values)
           THEN /\ Post(HealthMonitorData(parameter, instrument_name, StrList(values)))
                /\ clientPc' = "posted"
           ELSE UNCHANGED <<serverVars, httpVars, clientPc>>
    /\ pushIdx' = pushIdx + 1
    /\ UNCHANGED <<document, collectVars, data, instrument_name>>

\* the loop of push_data ends; time.sleep(...)
Sleep ==
    /\ clientPc = "push"
    /\ pushIdx > Len(data)
    /\ clientPc' = "export"
    /\ UNCHANGED <<serverVars, httpVars, document, collectVars, data, instrument_name, pushIdx>>

\* requests.post returns the response, whatever its status, and push_data
\* goes on with the next parameter; only a failed connection raises.
AfterPostRaising(resp) == IF resp = Ok THEN "push" ELSE "terminated"
AfterPost(resp) == IF resp = ConnectionError THEN "terminated" ELSE "push"

\* The sender gets its answer and the exchange is over.
Respond ==
    /\ request # NoRequest
    /\ request' = NoRequest
    /\ response' = NoResponse
    /\ clientPc' = IF clientPc = "posted" THEN AfterPost(response) ELSE clientPc
    /\ UNCHANGED <<serverVars, document, collectVars, data, instrument_name, pushIdx>>

\* except KeyboardInterrupt: break
KeyboardInterrupt ==
    /\ clientPc \in {"export", "collect", "collecting", "push", "posted"}
    /\ clientPc' = "stopped"
    /\ UNCHANGED <<serverVars, httpVars, document, collectVars, data, instrument_name, pushIdx>>

(***************************************************************************)
(* Any other sender of POST /set (the curl lines at the end of             *)
(* prometheus.py).                                                         *)
(***************************************************************************)
MaxValues == 2

Types == {"P1", "P2", "P3", "num_loads"}
Instruments == {"Krios4", "Talos"}
WireValues == {WireStr("0"), WireStr("1"), WireStr("2"), WireStr("abc"),
               WireFloat("23.1")}
ValueLists == UNION {[1..n -> WireValues] : n \in 0..MaxValues}
Payloads == {HealthMonitorData(t, i, v) :
                t \in Types, i \in Instruments, v \in ValueLists}

ExternalPost ==
    /\ \E payload \in Payloads : Post(payload)
    /\ UNCHANGED clientVars

(***************************************************************************)
(* Specifications                                                          *)
(***************************************************************************)
NoDocument == HealthMonitor(FALSE, <<>>, <<>>, NoValues)

Init ==
    /\ serverPc = "Enum_List"
    /\ xml_path \in ServerDocs
    /\ Enum_List = <<>>
    /\ ComponentList = <<>>
    /\ buildIdx = 1
    /\ Enumerations = <<>>
    /\ Gauges = <<>>
    /\ increment_map = <<>>
    /\ request = NoRequest
    /\ response = NoResponse
    /\ clientPc = "config"
    /\ document = NoDocument
    /\ time_obj = [wall |-> 0, utcoffset |-> 0]
    /\ vdIdx = 1
    /\ smIdx = 0
    /\ data = <<>>
    /\ instrument_name = None
    /\ pushIdx = 1

Build ==
    \/ ImportEnumList
    \/ ImportComponentList
    \/ BuildEnumerations
    \/ BuildGauges
    \/ BuildCounters
    \/ IncludeRouter

\* the pipeline: the server and the client that feeds it
Next ==
    \/ Build
    \/ GetConfig
    \/ Export
    \/ CollectBegin
    \/ CollectEnter
    \/ CollectSample
    \/ CollectReturn
    \/ Push
    \/ Respond
    \/ Sleep
    \/ KeyboardInterrupt

Spec == Init /\ [][Next]_vars

\* the server and any sender of POST /set
NextServer ==
    \/ Build
    \/ ExternalPost
    \/ Respond

SpecServer == Init /\ [][NextServer]_vars

(***************************************************************************)
(* The collector on the documents an export can write: the export command  *)
(* writes the Values section entry by entry, within the bounds below.      *)
(***************************************************************************)
MaxValueData == 2
MaxBlocks == 2
MaxSamples == 2

\* the end times of the documents, and the samples an export may write
EndStamps == {Stamp("frac", 1000, 0), Stamp("frac7", 1000, 0), Stamp("sec", 1000, 0)}
SampleUniverse ==
    {ParameterValue(Stamp("frac", 939, 0), WireInt("0")),
     ParameterValue(Stamp("frac", 940, 0), WireInt("1")),
     ParameterValue(Stamp("frac", 1000, 0), WireInt("2")),
     ParameterValue(Stamp("sec", 1001, 0), WireFloat("22.5")),
     ParameterValue(Stamp("offset", 939, 0 - 3600), WireFloat("23.1")),
     ParameterValue(Stamp("frac7", 1000, 0), WireStr("abc"))}
ValueIds == {"P1", "P2"}

\* the samples written so far
RECURSIVE Count(_)
Count(value_data) ==
    IF value_data = <<>> THEN 0
    ELSE Len(Flatten(Head(value_data).parameter_value)) + Count(Tail(value_data))

WriteDocument(value_data) ==
    /\ clientPc = "export"
    /\ document' = [document EXCEPT !.values.value_data = value_data]
    /\ UNCHANGED <<serverVars, httpVars, clientPc, collectVars, data,
                   instrument_name, pushIdx>>

\* <ValueData ParameterID=...>
WriteValueData ==
    /\ Len(document.values.value_data) < MaxValueData
    /\ \E id \in ValueIds :
         WriteDocument(Append(document.values.value_data, ValueData(id, <<>>)))

\* <ParameterValues> with its first <ParameterValue> (the schema wants at
\* least one), in the ValueData written last
WriteBlock ==
    LET value_data == document.values.value_data
        n == Len(value_data)
    IN  /\ n > 0
        /\ Len(value_data[n].parameter_value) < MaxBlocks
        /\ Count(value_data) < MaxSamples
        /\ \E sample \in SampleUniverse :
             WriteDocument([value_data EXCEPT
                 ![n].parameter_value = Append(@, <<sample>>)])

\* a further <ParameterValue Timestamp=...> in the block written last
WriteSample ==
    LET value_data == document.values.value_data
        n == Len(value_data)
    IN  /\ n > 0
        /\ Len(value_data[n].parameter_value) > 0
        /\ Count(value_data) < MaxSamples
        /\ \E sample \in SampleUniverse :
             WriteDocument([value_data EXCEPT
                 ![n].parameter_value[Len(value_data[n].parameter_value)] =
                     Append(@, sample)])

\* the export command returns
ExportDone ==
    /\ clientPc = "export"
    /\ clientPc' = "collect"
    /\ UNCHANGED <<serverVars, httpVars, document, collectVars, data,
                   instrument_name, pushIdx>>

InitCollect ==
    /\ serverPc = "Enum_List"
    /\ xml_path = XmlStandard
    /\ Enum_List = <<>>
    /\ ComponentList = <<>>
    /\ buildIdx = 1
    /\ Enumerations = <<>>
    /\ Gauges = <<>>
    /\ increment_map = <<>>
    /\ request = NoRequest
    /\ response = NoResponse
    /\ clientPc = "export"
    /\ document \in {HealthMonitor(TRUE, <<ObjectiveMode_enum>>, <<FEG, Autoloader>>,
                                   Values(end, "Krios4", <<>>)) : end \in EndStamps}
    /\ time_obj = [wall |-> 0, utcoffset |-> 0]
    /\ vdIdx = 1
    /\ smIdx = 0
    /\ data = <<>>
    /\ instrument_name = None
    /\ pushIdx = 1

NextCollect ==
    \/ WriteValueData
    \/ WriteBlock
    \/ WriteSample
    \/ ExportDone
    \/ CollectBegin
    \/ CollectEnter
    \/ CollectSample
    \/ CollectReturn

SpecCollect == InitCollect /\ [][NextCollect]_vars

(***************************************************************************)
(* The resolver on the component trees a document can hold: the tree of    *)
(* the document health_monitor_xml names is written element by element,    *)
(* within the bounds below, before the server imports it.                  *)
(***************************************************************************)
MaxComponents == 2
MaxChildren == 1
MaxParameters == 3

ComponentNames == {<<"FEG">>, <<"Auto", "-", "loader">>}
ChildNames == {<<"Cassette", " ", "1">>}
\* two of the parameters have the same ID
ParameterUniverse ==
    {Parameter("P1", <<"Temperature">>, None),
     Parameter("P2", <<"Objective", " ", "Mode">>, "ObjectiveMode_enum"),
     Parameter("P1", <<"Temp", ".">>, "ObjectiveMode_enum")}

RECURSIVE CountParameters(_)
\* the parameters written so far
CountParameters(components) ==
    IF components = <<>> THEN 0
    ELSE Len(Head(components).parameter)
         + CountParameters(Head(components).components)
         + CountParameters(Tail(components))

WriteTree(component) ==
    /\ serverPc = "Enum_List"
    /\ xml_path' = [xml_path EXCEPT !.component = component]
    /\ UNCHANGED <<serverPc, Enum_List, ComponentList, buildIdx, Enumerations,
                   Gauges, increment_map, httpVars, clientVars>>

\* <Component Name=...> below <Instrument>
WriteComponent ==
    /\ Len(xml_path.component) < MaxComponents
    /\ \E name \in ComponentNames :
         WriteTree(Append(xml_path.component, Component(name, <<>>, <<>>)))

\* <Component Name=...> inside the component written last
WriteChild ==
    LET tree == xml_path.component
        n == Len(tree)
    IN  /\ n > 0
        /\ Len(tree[n].components) < MaxChildren
        /\ \E name \in ChildNames :
             WriteTree([tree EXCEPT ![n].components =
                                        Append(@, Component(name, <<>>, <<>>))])

\* <Parameter ID=...> of the component written last
WriteParameter ==
    LET tree == xml_path.component
        n == Len(tree)
    IN  /\ n > 0
        /\ CountParameters(tree) < MaxParameters
        /\ \E parameter \in ParameterUniverse :
             WriteTree([tree EXCEPT ![n].parameter = Append(@, parameter)])

\* <Parameter ID=...> of the child written last
WriteChildParameter ==
    LET tree == xml_path.component
        n == Len(tree)
    IN  /\ n > 0
        /\ tree[n].components # <<>>
        /\ CountParameters(tree) < MaxParameters
        /\ \E parameter \in ParameterUniverse :
             WriteTree([tree EXCEPT
                 ![n].components[Len(tree[n].components)].parameter =
                     Append(@, parameter)])

InitResolve ==
    /\ serverPc = "Enum_List"
    /\ xml_path = HealthMonitor(TRUE, <<ObjectiveMode_enum>>, <<>>, NoValues)
    /\ Enum_List = <<>>
    /\ ComponentList = <<>>
    /\ buildIdx = 1
    /\ Enumerations = <<>>
    /\ Gauges = <<>>
    /\ increment_map = <<>>
    /\ request = NoRequest
    /\ response = NoResponse
    /\ clientPc = "config"
    /\ document = NoDocument
    /\ time_obj = [wall |-> 0, utcoffset |-> 0]
    /\ vdIdx = 1
    /\ smIdx = 0
    /\ data = <<>>
    /\ instrument_name = None
    /\ pushIdx = 1

NextResolve ==
    \/ WriteComponent
    \/ WriteChild
    \/ WriteParameter
    \/ WriteChildParameter
    \/ ImportEnumList
    \/ ImportComponentList

SpecResolve == InitResolve /\ [][NextResolve]_vars

(***************************************************************************)
(* Properties                                                              *)
(***************************************************************************)
\* a step in which set_value handles a request
Handles == request = NoRequest /\ request' # NoRequest /\ serverPc = "serving"
\* a request set_value has handled, its answer not yet delivered
Handled == request # NoRequest /\ response # ConnectionError

Sinks == <<Enumerations, Gauges, increment_map>>

\* no labelled child of any sink exists
NoSamples ==
    /\ \A id \in DOMAIN Enumerations : Enumerations[id].children = <<>>
    /\ \A id \in DOMAIN Gauges : Gauges[id] = <<>>
    /\ \A id \in DOMAIN increment_map : increment_map[id].children = <<>>

\* the three tables hold every metric the build creates
TablesComplete ==
    /\ DOMAIN Enumerations \cup DOMAIN Gauges = Keys(ComponentList)
    /\ DOMAIN increment_map = {"num_loads", "autofill_times"}

\* C1 as stated: a push that arrives while the registry is UNBUILT (the import
\* has not reached its end) is answered with a RegistryNotReady condition and
\* changes no sink.
C1_RegistryNotReady ==
    (request # NoRequest /\ serverPc # "serving")
        => (response.body = "RegistryNotReady" /\ NoSamples)

\* C1 as amended: the code has no RegistryNotReady condition.  While the
\* registry is unbuilt nothing listens: a push gets no answer from set_value
\* (the connection fails) and no sink holds a sample; every request set_value
\* answers is routed against the complete tables.
C1_NoPushBeforeBuilt ==
    /\ serverPc # "serving" =>
         (response \in {NoResponse, ConnectionError} /\ NoSamples)
    /\ Handled => (serverPc = "serving" /\ TablesComplete)

\* a push for an enumerated identifier arrives between the creation of
\* Enumerations and that of Gauges, and fails to connect
C1_Witness ==
    /\ serverPc = "Gauges"
    /\ request.type \in DOMAIN Enumerations
    /\ response = ConnectionError

\* C2: once the registry is built, the key sets of Enumerations, Gauges and
\* increment_map are pairwise disjoint and cover every key of ComponentList.
C2_ExactlyOneTable ==
    serverPc = "serving" =>
        /\ DOMAIN Enumerations \cap DOMAIN Gauges = {}
        /\ DOMAIN Enumerations \cap DOMAIN increment_map = {}
        /\ DOMAIN Gauges \cap DOMAIN increment_map = {}
        /\ Keys(ComponentList) \subseteq
             DOMAIN Enumerations \cup DOMAIN Gauges \cup DOMAIN increment_map

\* the identifier of the request is classified as a gauge
IsGauge(type) == type \in DOMAIN Gauges /\ type \notin DOMAIN Enumerations
\* every gauge sample but the one named is as it was
OtherGaugesUnchanged(type, instrument) ==
    /\ DOMAIN Gauges' = DOMAIN Gauges
    /\ \A id \in DOMAIN Gauges :
         /\ DOMAIN Gauges'[id] \ {instrument} = DOMAIN Gauges[id] \ {instrument}
         /\ \A i \in DOMAIN Gauges[id] :
              (id # type \/ i # instrument) => Gauges'[id][i] = Gauges[id][i]
         /\ id # type => Gauges'[id] = Gauges[id]

\* C3 as stated: after every push of a non-empty list to a gauge identifier,
\* the sample of the pushed instrument is the floating-point value of the last
\* element, and no other sample changes.
C3_GaugeIsLastValue ==
    [][(Handles /\ IsGauge(request'.type) /\ request'.value # <<>>) =>
         /\ request'.instrument \in DOMAIN Gauges'[request'.type]
         /\ request'.value[Len(request'.value)].x \in DOMAIN Tenths
         /\ Gauges'[request'.type][request'.instrument] =
               Tenths[request'.value[Len(request'.value)].x]
         /\ OtherGaugesUnchanged(request'.type, request'.instrument)
         /\ Enumerations' = Enumerations /\ increment_map' = increment_map]_vars

\* a value float() accepts
IsNumber(value) == value.ty # "str" \/ value.x \in DOMAIN Tenths

\* C3 as amended: the above when the last element of the list converts to a
\* floating-point number (whatever the earlier elements are); when it does
\* not, set_value returns an error and sets no sample to a pushed value: the
\* sample of the pushed instrument keeps its value, or is created at 0.
C3_GaugeIsLastNumber ==
    [][(Handles /\ IsGauge(request'.type) /\ request'.value # <<>>) =>
         LET type == request'.type
             instrument == request'.instrument
             last == request'.value[Len(request'.value)]
         IN  /\ instrument \in DOMAIN Gauges'[type]
             /\ IF IsNumber(last)
                THEN /\ Gauges'[type][instrument] = Tenths[last.x]
                     /\ response' = Ok
                ELSE /\ Gauges'[type][instrument] =
                          (IF instrument \in DOMAIN Gauges[type]
                           THEN Gauges[type][instrument] ELSE 0)
                     /\ response'.status = "200" /\ response' # Ok
             /\ OtherGaugesUnchanged(type, instrument)
             /\ Enumerations' = Enumerations /\ increment_map' = increment_map]_vars

\* the spec's scenario, here with a first element that is no number: P1 pushed
\* for Krios4 with a two-element list ending in 23.1 leaves the gauge at 23.1
C3_Witness ==
    /\ Handled
    /\ request = HealthMonitorData("P1", "Krios4", <<WireStr("abc"), WireFloat("23.1")>>)
    /\ IsGauge("P1") /\ "Krios4" \in DOMAIN Gauges["P1"]
    /\ Gauges["P1"]["Krios4"] = 231
    /\ "Talos" \in DOMAIN Gauges["P1"] /\ Gauges["P1"]["Talos"] = 20
    /\ response = Ok

\* the identifier of the request is classified as enumerated
IsEnum(type) == type \in DOMAIN Enumerations
\* the codes the enumeration of an enumerated identifier declares
Codes(type) == Get(Enum_List, Get(ComponentList, type).enumeration)
\* the integer a pushed value stands for, when it stands for one
IsInteger(value) == value.ty = "int" \/ (value.ty = "str" /\ value.x \in IntegerTexts)
CodeOf(value) == Tenths[value.x] \div 10
IsDeclared(type, value) == IsInteger(value) /\ CodeOf(value) \in Keys(Codes(type))
\* every enumerated state but the one named is as it was
OtherStatesUnchanged(type, instrument) ==
    /\ DOMAIN Enumerations' = DOMAIN Enumerations
    /\ \A id \in DOMAIN Enumerations :
         /\ Enumerations'[id].states = Enumerations[id].states
         /\ DOMAIN Enumerations'[id].children \ {instrument}
               = DOMAIN Enumerations[id].children \ {instrument}
         /\ \A i \in DOMAIN Enumerations[id].children :
              (id # type \/ i # instrument)
                 => Enumerations'[id].children[i] = Enumerations[id].children[i]
         /\ id # type => Enumerations'[id] = Enumerations[id]

\* C4: a push of a non-empty list of declared codes to an enumerated
\* identifier leaves the state of the pushed instrument at the label of the
\* last code of the list; no error is returned and nothing else changes.
C4_EnumIsLastLabel ==
    [][(/\ Handles
        /\ IsEnum(request'.type)
        /\ request'.value # <<>>
        /\ \A i \in 1..Len(request'.value) : IsDeclared(request'.type, request'.value[i]))
       => LET type == request'.type
              instrument == request'.instrument
              last == request'.value[Len(request'.value)]
          IN  /\ instrument \in DOMAIN Enumerations'[type].children
              /\ Enumerations'[type].children[instrument]
                    = Get(Codes(type), CodeOf(last))
              /\ (xml_path = XmlStandard /\ type = "P2" /\ last.x = "1")
                    => Enumerations'[type].children[instrument] = "On"
              /\ response' = Ok
              /\ OtherStatesUnchanged(type, instrument)
              /\ Gauges' = Gauges /\ increment_map' = increment_map]_vars

\* P2 (0: Off, 1: On) pushed for Krios4 with codes 0 then 1 is On, while
\* Talos stays Off
C4_Witness ==
    /\ Handled
    /\ request = HealthMonitorData("P2", "Krios4", <<WireStr("0"), WireStr("1")>>)
    /\ IsEnum("P2")
    /\ Enumerations["P2"].children = ("Krios4" :> "On") @@ ("Talos" :> "Off")
    /\ response = Ok

\* C5: a push to an enumerated identifier whose list holds an integer code
\* the enumeration does not declare is answered by set_value with an error,
\* and the enumerated sink is as it was before the push.
C5_UnknownCodeReported ==
    [][(/\ Handles
        /\ IsEnum(request'.type)
        /\ \E i \in 1..Len(request'.value) :
              /\ IsInteger(request'.value[i])
              /\ ~IsDeclared(request'.type, request'.value[i]))
       => /\ response'.status = "200" /\ response' # Ok
          /\ Enumerations' = Enumerations]_vars

\* the identifier of the request is one of the manually declared counters
IsCounter(type) ==
    /\ type \in DOMAIN increment_map
    /\ type \notin DOMAIN Enumerations \cup DOMAIN Gauges

\* C6: a push to num_loads or autofill_times returns no error and increases
\* the counter of the pushed instrument by exactly one, whatever the values.
C6_CounterIncrements ==
    [][(Handles /\ IsCounter(request'.type))
       => LET type == request'.type
              instrument == request'.instrument
              before == IF instrument \in DOMAIN increment_map[type].children
                        THEN increment_map[type].children[instrument] ELSE 0
          IN  /\ response' = Ok
              /\ instrument \in DOMAIN increment_map'[type].children
              /\ increment_map'[type].children[instrument] = before + 1]_vars

\* the identifier of the request is in none of the sink tables
IsUnknown(type) ==
    type \notin DOMAIN Enumerations \cup DOMAIN Gauges \cup DOMAIN increment_map

\* C7: a push of the client for an identifier in none of the tables is
\* answered by set_value with the error "Invalid type" and changes no sink;
\* with that answer push_data goes on with the next parameter of the batch.
C7_UnknownIdReported ==
    [][/\ (Handles /\ IsUnknown(request'.type))
          => (response' = Error("Invalid type") /\ Sinks' = Sinks)
       /\ (clientPc = "posted" /\ IsUnknown(request.type) /\ Handled
              /\ request' = NoRequest)
          => (clientPc' = "push" /\ data' = data /\ pushIdx' = pushIdx)]_vars

\* the batch of XmlBatch starts with P3, which the server does not know; the
\* next parameter with values, P2, has been sent and routed
C7_Witness ==
    /\ xml_path = XmlStandard
    /\ document = XmlBatch
    /\ clientPc = "posted"
    /\ pushIdx = 3
    /\ "P3" \in Keys(data) /\ IsUnknown("P3")
    /\ request.type = "P2"
    /\ response = Ok
    /\ Enumerations["P2"].children = ("Krios4" :> "On")

\* the window of one minute before the document's end time (seconds)
InLastMinute(timestamp) == timestamp.t >= document.values.end.t - 60
\* collect has gone past a sample without raising
PastSample == clientPc = "collecting" /\ smIdx >= 1 /\ <<vdIdx, smIdx>>' # <<vdIdx, smIdx>>

\* C8: collect appends the value of a sample to the list of its parameter if
\* the timestamp of the sample is at or after the document's end time minus
\* one minute, and leaves the lists alone if it is not; nothing bounds the
\* timestamp from above.
C8_AppendsIffInWindow ==
    [][PastSample =>
         LET name == document.values.value_data[vdIdx].valueid
             parameter == Samples[smIdx]
         IN  IF InLastMinute(parameter.timestamp)
             THEN /\ Get(data', name) = Append(Get(data, name), parameter.value)
                  /\ \A k \in Keys(data) \ {name} : Get(data', k) = Get(data, k)
                  /\ KeySeq(data') = KeySeq(data)
             ELSE data' = data]_vars

\* a sample 61 seconds before the end time is left out and the one 60 seconds
\* before it is taken
C8_Witness ==
    /\ clientPc = "push"
    /\ document.values.end.t = 1000
    /\ document.values.value_data =
         <<ValueData("P1", <<<<ParameterValue(Stamp("frac", 939, 0), WireInt("0")),
                               ParameterValue(Stamp("frac", 940, 0), WireInt("1"))>>>>)>>
    /\ data = <<<<"P1", <<WireInt("1")>>>>>>

RECURSIVE TreeIds(_)
\* the parameter identifiers of a component tree
TreeIds(components) ==
    IF components = <<>> THEN {}
    ELSE {Head(components).parameter[i].parameterid :
              i \in 1..Len(Head(components).parameter)}
         \cup TreeIds(Head(components).components)
         \cup TreeIds(Tail(components))

ValueDataIds == {document.values.value_data[i].valueid :
                    i \in 1..Len(document.values.value_data)}
\* no sample of any ValueData of the identifier lies in the window
NoneInWindow(id) ==
    \A i \in 1..Len(document.values.value_data) :
        LET vd == document.values.value_data[i] IN
        vd.valueid = id =>
            \A j \in 1..Len(Flatten(vd.parameter_value)) :
                ~InLastMinute(Flatten(vd.parameter_value)[j].timestamp)

\* C9 as stated: every parameter identifier of the Instruments tree is a key
\* of the mapping collect returns.
C9_TreeIdsAreKeys ==
    clientPc = "push" => TreeIds(document.component) \subseteq Keys(data)

\* C9 as amended: the keys of the mapping collect returns are the
\* ParameterIDs of the ValueData entries of the Values section, whether or not
\* the tree declares them, each with an empty list when none of its samples
\* falls in the window.
C9_ValueDataIdsAreKeys ==
    clientPc = "push" =>
        /\ Keys(data) = ValueDataIds
        /\ \A id \in ValueDataIds : NoneInWindow(id) => Get(data, id) = <<>>

\* P1 has a sample before the window only and P2 no sample at all: both are
\* keys with an empty list, and P3 and P4 of the tree are no keys
C9_Witness ==
    /\ clientPc = "push"
    /\ document.values.value_data =
         <<ValueData("P1", <<<<ParameterValue(Stamp("frac", 939, 0), WireInt("0"))>>>>),
           ValueData("P2", <<>>)>>
    /\ data = <<<<"P1", <<>>>>, <<"P2", <<>>>>>>
    /\ {"P3", "P4"} \subseteq TreeIds(document.component)

\* C10: a document that fails validation, or a parameter whose enumeration is
\* missing from the enumeration table, ends neither process: the client goes
\* on to its next cycle and the server import goes on.
C10_ErrorHaltsOnlyCycle ==
    [][/\ (clientPc = "collect" /\ ~document.valid) => clientPc' # "terminated"
       /\ serverPc' # "failed"]_vars

\* collect is at a sample whose timestamp no format of parse_datetime fits
AtUnparsableSample ==
    /\ clientPc = "collecting"
    /\ vdIdx <= Len(document.values.value_data)
    /\ smIdx >= 1
    /\ parse_datetime(Samples[smIdx].timestamp).exc # None

\* C11: when the timestamp of a sample fits none of the accepted formats,
\* collect skips that sample only: it goes on collecting, with the lists
\* collected so far as they were.
C11_SkipsOnlyBadSample ==
    [][AtUnparsableSample =>
         /\ clientPc' = "collecting"
         /\ data' = data
         /\ <<vdIdx, smIdx>>' # <<vdIdx, smIdx>>]_vars

RECURSIVE Prefixes(_)
\* the components whose name prefixes an identity, in document order: a
\* top-level component without children, or the direct children of one with
\* children
Prefixes(components) ==
    IF components = <<>> THEN <<>>
    ELSE (IF Head(components).components = <<>>
          THEN <<Head(components)>>
          ELSE Head(components).components) \o Prefixes(Tail(components))

RECURSIVE Emitted(_)
\* the (prefix, parameter) pairs of a sequence of prefix components, in
\* document order
Emitted(prefixes) ==
    IF prefixes = <<>> THEN <<>>
    ELSE [j \in 1..Len(Head(prefixes).parameter) |->
             [prefix |-> Head(prefixes).name,
              parameter |-> Head(prefixes).parameter[j]]]
         \o Emitted(Tail(prefixes))

\* a name with its spaces turned into underscores and its dots and hyphens
\* removed
Sanitized(name) ==
    SelectSeq([i \in 1..Len(name) |-> IF name[i] = " " THEN "_" ELSE name[i]],
              LAMBDA piece : piece \notin {".", "-"})

\* the identity of a (prefix, parameter) pair
IdentityOf(e) ==
    [name |-> Sanitized(e.prefix \o <<"_">> \o e.parameter.name),
     enumeration |-> IF e.parameter.enumerationname = None THEN None
                     ELSE replace_enum(e.parameter.enumerationname)]

\* the import has resolved the tree of the document
Resolved == serverPc = "Enumerations"

\* C12: the map component_enums returns has one entry per parameter of each
\* top-level component without children and of each direct child of a
\* top-level component with children, none for the own parameters of a
\* component with children; the entry of an identifier is the identity of its
\* last such parameter in document order: the name '<prefix>_<parameter>'
\* (sanitized) and the enumeration name without '_enum', or none.
C12_IdentityMap ==
    Resolved =>
        LET emitted == Emitted(Prefixes(xml_path.component)) IN
        /\ Keys(ComponentList) =
             {emitted[k].parameter.parameterid : k \in 1..Len(emitted)}
        /\ \A id \in Keys(ComponentList) :
             \E k \in 1..Len(emitted) :
                /\ emitted[k].parameter.parameterid = id
                /\ \A l \in (k + 1)..Len(emitted) :
                      emitted[l].parameter.parameterid # id
                /\ Get(ComponentList, id) = IdentityOf(emitted[k])

\* a component with a child and a parameter of its own, and the identifier P1
\* resolved twice: the later identity is the one kept
C12_Witness ==
    /\ Resolved
    /\ xml_path.component =
         <<Component(<<"FEG">>, <<>>, <<Parameter("P1", <<"Temperature">>, None)>>),
           Component(<<"Auto", "-", "loader">>,
               <<Component(<<"Cassette", " ", "1">>, <<>>,
                    <<Parameter("P1", <<"Temp", ".">>, "ObjectiveMode_enum")>>)>>,
               <<Parameter("P2", <<"Objective", " ", "Mode">>, "ObjectiveMode_enum")>>)>>
    /\ ComponentList =
         <<<<"P1", [name |-> <<"Cassette", "_", "1", "_", "Temp">>,
                    enumeration |-> "ObjectiveMode"]>>>>

\* the samples of an identifier in the document, over all its ValueData
\* entries and blocks
RECURSIVE SamplesOf(_, _)
SamplesOf(value_data, id) ==
    IF value_data = <<>> THEN <<>>
    ELSE (IF Head(value_data).valueid = id
          THEN Flatten(Head(value_data).parameter_value)
          ELSE <<>>) \o SamplesOf(Tail(value_data), id)

\* a sample of the identifier that lies in the window and has the greatest
\* timestamp of those that do
IsLatestCollected(sample, id) ==
    LET samples == SamplesOf(document.values.value_data, id) IN
    /\ \E i \in 1..Len(samples) : samples[i] = sample
    /\ InLastMinute(sample.timestamp)
    /\ \A i \in 1..Len(samples) :
          InLastMinute(samples[i].timestamp)
              => samples[i].timestamp.t <= sample.timestamp.t

\* set_value has answered the client's push of a gauge identifier
GaugePushed ==
    /\ clientPc = "posted"
    /\ response = Ok
    /\ IsGauge(request.type)

\* C13: after the client's push of a gauge parameter the gauge holds the value
\* of the collected sample with the greatest timestamp, whatever the order of
\* the samples in the document.
C13_GaugeHoldsLatest ==
    GaugePushed =>
        \E i \in 1..Len(SamplesOf(document.values.value_data, request.type)) :
            LET sample == SamplesOf(document.values.value_data, request.type)[i] IN
            /\ IsLatestCollected(sample, request.type)
            /\ Gauges[request.type][request.instrument] = float(sample.value).val

\* the instant a timestamp denotes, in seconds of UTC: its wall-clock reading
\* less its UTC offset
Instant(timestamp) == timestamp.t - timestamp.off

\* C14: the window comparison is between instants: a sample is collected if
\* and only if the instant its timestamp denotes, UTC offset included, is at
\* or after the document's end time minus one minute.
C14_ComparesInstants ==
    [][PastSample =>
         LET parameter == Samples[smIdx] IN
         (data' # data) <=>
             (Instant(parameter.timestamp) >= Instant(document.values.end) - 60)]_vars

\* the values of the samples of a sequence that lie in the window, in order
WindowValues(samples) ==
    LET inside == SelectSeq(samples, LAMBDA sample : InLastMinute(sample.timestamp))
    IN  [i \in 1..Len(inside) |-> inside[i].value]

\* C15: the list collect returns for an identifier is the concatenation, in
\* document order, of the in-window samples of all the blocks of all the
\* ValueData entries of that identifier.
C15_BlocksConcatenated ==
    clientPc = "push" =>
        \A id \in Keys(data) :
            Get(data, id) = WindowValues(SamplesOf(document.values.value_data, id))

\* push_data passes one entry of data.items()
PushPass == clientPc = "push" /\ pushIdx <= Len(data) /\ pushIdx' = pushIdx + 1

\* C16: each pass of push_data's loop, one per identifier of the mapping,
\* sends nothing when the list of the identifier is empty and otherwise sends
\* one payload with the identifier, the instrument name and the values of the
\* list as strings in the order of the list; so a payload of the client never
\* carries an empty list.
C16_OnePayloadPerNonEmptyList ==
    [][PushPass =>
         LET parameter == data[pushIdx][1]
             values == data[pushIdx][2]
         IN  /\ \A i \in 1..Len(data) : i # pushIdx => data[i][1] # parameter
             /\ IF values = <<>>
                THEN request' = NoRequest /\ clientPc' = "push"
                ELSE /\ request' = HealthMonitorData(parameter, instrument_name,
                                      [i \in 1..Len(values) |-> WireStr(values[i].x)])
                     /\ request'.value # <<>>
                     /\ response' # InternalServerError \/ ~IsGauge(parameter)
                     /\ clientPc' = "posted"]_vars

\* the batch of XmlBatch: nothing was sent for P4, whose list is empty, and
\* the next identifier, P1, has been sent with its two values in order
C16_Witness ==
    /\ document = XmlBatch
    /\ clientPc = "posted"
    /\ pushIdx = 5
    /\ data[3] = <<"P4", <<>>>>
    /\ request = HealthMonitorData("P1", "Krios4", <<WireStr("22.5"), WireStr("23.1")>>)
    /\ response = Ok

====
